---- MODULE Spec2Model ----
(***************************************************************************)
(* Model of src/app.ts: a Teams bot with a per-conversation counter kept   *)
(* in `storage`, a registry of conversation references kept in             *)
(* `conversationReferences`, a message handler dispatching on the          *)
(* mention-stripped text, and the HTTP routes POST /api/notify and         *)
(* GET /api/conversations.                                                 *)
(*                                                                         *)
(* JavaScript strings are modelled as sequences of string tokens, so that  *)
(* template literals are concatenations (\o) and two strings are equal     *)
(* iff their token sequences are.  A handler runs synchronously up to its  *)
(* first await (the reply or the proactive send), is then parked in        *)
(* `pending`, and resumes when the awaited send resolves or rejects.       *)
(***************************************************************************)
EXTENDS Integers, Sequences, FiniteSets, Bags, TLC

\* ------------------------------------------------------------------ bounds
\* The counter of a conversation is capped at MaxCount by the guards.
MaxCount == 2
\* At most MaxPending handlers are suspended at an await at any time.
MaxPending == 2

\* ------------------------------------------------------------------ values
Str(s) == <<s>>

\* `undefined` where a string is expected; the empty string is <<>>.
Undefined == <<"<undefined>">>
\* `undefined` where an object is expected.
NoObject == [undefined |-> TRUE]

\* JavaScript truthiness of a string-or-undefined value.
Truthy(v) == v # Undefined /\ v # <<>>

\* Conversations the platform delivers events for, and one it never does.
Conv == {Str("c1"), Str("c2")}
Unseen == Str("c9")
ServiceUrls == {Str("https://s1"), Str("https://s2")}

\* activity.conversation of an event of conversation c.
ConversationOf(c) ==
    [id |-> c,
     conversationType |-> IF c = Str("c1") THEN Str("personal") ELSE Undefined]

\* The markup of a mention of the bot, with the blank that follows it.
AtBot == "<at>bot</at> "

RawTexts ==
    {Str("/reset"), Str("/count"), Str("/diag"), Str("/state"), Str("/runtime"),
     Str("hello"), <<AtBot, "/count">>, <<"/count", " now">>}

Commands ==
    {Str("/reset"), Str("/count"), Str("/diag"), Str("/state"), Str("/runtime")}

\* ------------------------------------------------------------------ state
VARIABLES
    storage,                \* LocalStorage: conversation id -> state or NoObject
    conversationReferences, \* Map in insertion order: sequence of [key, ref]
    pending,                \* handlers suspended at their awaited send
    last,                   \* the step just taken: its inputs and its outputs
    sinceReset,             \* history: echoes handled since the last /reset
    observed,               \* history: ref of the latest inbound event
    justReset,              \* history: the latest message handled was /reset
    touched,                \* history: /count, /state or an echo since the last /reset
    replied,                \* history: the counts echo replies carried since the last /reset
    arrival                 \* history: the conversations in order of their first event

vars ==
    <<storage, conversationReferences, pending, last, sinceReset, observed,
      justReset, touched, replied, arrival>>

\* ------------------------------------------------------------------ Map
MapHas(m, k) == \E i \in DOMAIN m : m[i].key = k

MapGet(m, k) ==
    IF MapHas(m, k) THEN m[CHOOSE i \in DOMAIN m : m[i].key = k].ref ELSE NoObject

\* Mutant of MapSet: a cache of one entry, a new key evicting the old one.
MapSetEvicting(m, k, v) ==
    IF MapHas(m, k)
    THEN [i \in DOMAIN m |-> IF m[i].key = k THEN [key |-> k, ref |-> v] ELSE m[i]]
    ELSE <<[key |-> k, ref |-> v]>>

\* Mutant of MapSet: an entry already present is removed and entered anew, so
\* it moves behind the others.
MapSetMoveToEnd(m, k, v) ==
    Append(SelectSeq(m, LAMBDA e : e.key # k), [key |-> k, ref |-> v])

\* Mutant of MapSet: an entry already present is kept, not overwritten.
MapSetIfAbsent(m, k, v) ==
    IF MapHas(m, k) THEN m ELSE Append(m, [key |-> k, ref |-> v])

MapSet(m, k, v) ==
    IF MapHas(m, k)
    THEN [i \in DOMAIN m |-> IF m[i].key = k THEN [key |-> k, ref |-> v] ELSE m[i]]
    ELSE Append(m, [key |-> k, ref |-> v])

\* Mutant of MapKeys: the key entered last is left out.
MapKeysButLast(m) == [i \in 1..(Len(m) - 1) |-> m[i].key]

MapKeys(m) == [i \in DOMAIN m |-> m[i].key]

\* ------------------------------------------------------------------ storage
StorageGet(sto, k) == IF k \in DOMAIN sto THEN sto[k] ELSE NoObject

StorageSet(sto, k, v) == [sto EXCEPT ![k] = v]

\* Mutant of StorageDelete: the whole store is cleared.
StorageDeleteAll(sto, k) == [c \in DOMAIN sto |-> NoObject]

\* Mutant of StorageDelete: the state is zeroed, not removed.
StorageDeleteToZero(sto, k) == [sto EXCEPT ![k] = [count |-> 0]]

StorageDelete(sto, k) == [sto EXCEPT ![k] = NoObject]

\* Mutant of getConversationState: the test for an existing state is dropped,
\* so the state is initialized on every call.
getConversationStateAlwaysInit(sto, conversationId) ==
    [storage |-> StorageSet(sto, conversationId, [count |-> 0]),
     state |-> [count |-> 0],
     effects |-> <<"storage.get", "storage.set">>]

\* Mutant of getConversationState: a fresh state starts at 1.
getConversationStateFromOne(sto, conversationId) ==
    LET state == StorageGet(sto, conversationId)
    IN  IF state = NoObject
        THEN [storage |-> StorageSet(sto, conversationId, [count |-> 1]),
              state |-> [count |-> 1],
              effects |-> <<"storage.get", "storage.set">>]
        ELSE [storage |-> sto, state |-> state, effects |-> <<"storage.get">>]

\* getConversationState: the state of the conversation, created at 0 when absent.
\* The state returned is the object held by storage.
getConversationState(sto, conversationId) ==
    LET state == StorageGet(sto, conversationId)
    IN  IF state = NoObject
        THEN [storage |-> StorageSet(sto, conversationId, [count |-> 0]),
              state |-> [count |-> 0],
              effects |-> <<"storage.get", "storage.set">>]
        ELSE [storage |-> sto, state |-> state, effects |-> <<"storage.get">>]

\* Mutant of Increment: the increment is made on a copy and never stored.
IncrementLost(sto, conversationId) == sto

\* state.count++ on the object held by storage under conversationId.
Increment(sto, conversationId) ==
    [sto EXCEPT ![conversationId] = [count |-> @.count + 1]]

\* ------------------------------------------------------------------ message
\* stripMentionsText: the text without the mention markup.
stripMentionsText(activity) ==
    SelectSeq(activity.text, LAMBDA t : t # AtBot)

\* context.ref: the routing reference the framework builds from the activity.
ContextRef(activity) ==
    [conversation |-> activity.conversation, serviceUrl |-> activity.serviceUrl]

ResetReply == Str("Ok I've deleted the current conversation state.")

CountReply(state) == <<"The count is ", ToString(state.count)>>

StateReply(state) == <<"{\"count\":", ToString(state.count), "}">>

DiagReply(activity) ==
    <<"{\"conversation\":\"">> \o activity.conversation.id \o <<"\",\"serviceUrl\":\"">>
        \o activity.serviceUrl \o <<"\",\"text\":\"">> \o activity.text \o <<"\"}">>

RuntimeReply == Str("{\"nodeversion\":\"v20\",\"sdkversion\":\"2.0.0\"}")

\* Mutant of EchoReply: the reply carries the count before the increment.
EchoReplyPre(state, text) ==
    <<"[", ToString(state.count - 1), "] you said: ">> \o text

EchoReply(state, text) == <<"[", ToString(state.count), "] you said: ">> \o text

\* Mutant of Dispatch: the state is fetched once, ahead of the dispatch, so
\* every branch but /reset has fetched or created it.
DispatchHoisted(sto, activity, text) ==
    LET id == activity.conversation.id
        g == getConversationState(sto, id)
    IN  IF text = Str("/reset")
        THEN [storage |-> StorageDelete(sto, id), reply |-> ResetReply,
              effects |-> <<"storage.delete", "send">>]
        ELSE IF text = Str("/count")
        THEN [storage |-> g.storage, reply |-> CountReply(g.state),
              effects |-> g.effects \o <<"send">>]
        ELSE IF text = Str("/diag")
        THEN [storage |-> g.storage, reply |-> DiagReply(activity),
              effects |-> g.effects \o <<"send">>]
        ELSE IF text = Str("/state")
        THEN [storage |-> g.storage, reply |-> StateReply(g.state),
              effects |-> g.effects \o <<"send">>]
        ELSE IF text = Str("/runtime")
        THEN [storage |-> g.storage, reply |-> RuntimeReply,
              effects |-> g.effects \o <<"send">>]
        ELSE LET sto2 == Increment(g.storage, id)
             IN  [storage |-> sto2, reply |-> EchoReply(sto2[id], text),
                  effects |-> g.effects \o <<"count++", "send">>]

\* The dispatch of the message handler on the mention-stripped text, after the
\* upsert of the reference: the storage it leaves and the reply it sends.
Dispatch(sto, activity, text) ==
    LET id == activity.conversation.id
        g == getConversationState(sto, id)
    IN  IF text = Str("/reset")
        THEN [storage |-> StorageDelete(sto, id), reply |-> ResetReply,
              effects |-> <<"storage.delete", "send">>]
        ELSE IF text = Str("/count")
        THEN [storage |-> g.storage, reply |-> CountReply(g.state),
              effects |-> g.effects \o <<"send">>]
        ELSE IF text = Str("/diag")
        THEN [storage |-> sto, reply |-> DiagReply(activity), effects |-> <<"send">>]
        ELSE IF text = Str("/state")
        THEN [storage |-> g.storage, reply |-> StateReply(g.state),
              effects |-> g.effects \o <<"send">>]
        ELSE IF text = Str("/runtime")
        THEN [storage |-> sto, reply |-> RuntimeReply, effects |-> <<"send">>]
        ELSE LET sto2 == Increment(g.storage, id)
             IN  [storage |-> sto2, reply |-> EchoReply(sto2[id], text),
                  effects |-> g.effects \o <<"count++", "send">>]

\* The message handler up to its await.
OnMessage(sto, refs, activity) ==
    LET refs2 == MapSet(refs, activity.conversation.id, ContextRef(activity))
        text == stripMentionsText(activity)
        d == Dispatch(sto, activity, text)
    IN  [storage |-> d.storage, refs |-> refs2, text |-> text, reply |-> d.reply,
         effects |-> <<"refs.set">> \o d.effects]

\* Mutant of OnInstall: the install event is handled like a message, so its
\* (empty) text is dispatched and replied to.
OnInstallAsMessage(sto, refs, activity) ==
    LET r == OnMessage(sto, refs, activity)
    IN  [storage |-> r.storage, refs |-> r.refs, replies |-> <<r.reply>>,
         effects |-> r.effects]

\* The install handler: the storage and the registry it leaves, and the
\* replies it sends.
OnInstall(sto, refs, activity) ==
    [storage |-> sto,
     refs |-> MapSet(refs, activity.conversation.id, ContextRef(activity)),
     replies |-> <<>>,
     effects |-> <<"refs.set">>]

\* The awaited reply of a message handler rejected: no await of the handler is
\* inside a try, so nothing catches the error and the promise of the handler
\* rejects with it.
OnReplyRejected(p) == [caught |-> FALSE, handler |-> "rejected"]

Count(sto, c) == IF sto[c] = NoObject THEN 0 ELSE sto[c].count

Activity(c, raw, url) ==
    [conversation |-> ConversationOf(c), text |-> raw, serviceUrl |-> url]

\* ------------------------------------------------------------------ notify
\* The values of the `mentions` field of a request body.
MUndefined == [tag |-> "undefined"]
MNotArray == [tag |-> "string"]
MArray(items) == [tag |-> "array", items |-> items]

Bob == [id |-> Str("u1"), name |-> Str("Bob")]
Al == [id |-> Str("u2"), name |-> Str("Al")]

Body(c, m, r, ms) ==
    [conversationId |-> c, message |-> m, replyToId |-> r, mentions |-> ms]

\* The request bodies tried: none, a required field absent or empty (for a
\* known and for an unknown conversation), the reply id absent, empty or given,
\* and each shape of mentions.
Bodies ==
    {NoObject,
     Body(Undefined, Str("hi"), Undefined, MUndefined),
     Body(<<>>, Str("hi"), Undefined, MUndefined),
     Body(Str("c1"), Undefined, Undefined, MUndefined),
     Body(Str("c1"), <<>>, Str("m1"), MUndefined),
     Body(Unseen, Undefined, Undefined, MUndefined),
     Body(Str("c1"), Str("hi"), <<>>, MUndefined)}
    \cup {Body(c, Str("hi"), r, MUndefined) :
            c \in {Unseen} \cup Conv, r \in {Undefined, Str("m1"), Str("m2")}}
    \cup {Body(Str("c1"), <<"hi ", "<at>", "Bob", "</at>">>, Undefined, ms) :
            ms \in {MNotArray, MArray(<<>>), MArray(<<Bob>>), MArray(<<Bob, Al>>)}}

\* What the awaited send resolves with, and what it rejects with.
SendResults == {[id |-> Str("a1")], [id |-> Str("a2")]}
SendErrors == {[message |-> Str("network down")], [message |-> <<>>]}

\* const { conversationId, message, replyToId, mentions } = req.body || {}
Destructure(req) ==
    IF req.body = NoObject
    THEN Body(Undefined, Undefined, Undefined, MUndefined)
    ELSE req.body

\* Mutant of Respond: the handler goes on after answering and answers again.
RespondTwice(res, code, body) ==
    res \o <<[status |-> code, json |-> body], [status |-> code, json |-> body]>>

\* res.status(code).json(body); res.json(body) answers with 200.
Respond(res, code, body) == Append(res, [status |-> code, json |-> body])

toActivityParams(message) == [type |-> Str("message"), text |-> message]

\* Mutant of MentionEntity: the text is the bare name, without the markup.
MentionEntityPlain(m) ==
    [type |-> Str("mention"),
     text |-> m.name,
     mentioned |-> [id |-> m.id, name |-> m.name]]

MentionEntity(m) ==
    [type |-> Str("mention"),
     text |-> <<"<at>">> \o m.name \o <<"</at>">>,
     mentioned |-> [id |-> m.id, name |-> m.name]]

\* The payload: the activity of the message, with the mention entities if any.
BuildActivityParams(message, mentions) ==
    LET activityParams == toActivityParams(message)
    IN  IF mentions.tag = "array" /\ Len(mentions.items) > 0
        THEN [type |-> activityParams.type, text |-> activityParams.text,
              entities |-> [i \in DOMAIN mentions.items |->
                                MentionEntity(mentions.items[i])]]
        ELSE activityParams

\* Mutant of DeriveThreadRef: the conversation id of the cached reference is
\* rewritten in place, so the registry holds the thread reference afterwards.
DeriveThreadRefInPlace(refs, ref, replyToId) ==
    LET threadRef ==
            [ref EXCEPT !.conversation.id =
                ref.conversation.id \o <<";messageid=">> \o replyToId]
    IN  [refs |-> [i \in DOMAIN refs |->
                      IF refs[i].ref = ref
                      THEN [key |-> refs[i].key, ref |-> threadRef]
                      ELSE refs[i]],
         threadRef |-> threadRef]

\* The reference of the thread of replyToId, a copy of ref; the registry is
\* left as it is.
DeriveThreadRef(refs, ref, replyToId) ==
    [refs |-> refs,
     threadRef |->
        [ref EXCEPT !.conversation.id =
            ref.conversation.id \o <<";messageid=">> \o replyToId]]

\* The reference the send is addressed to.
SendTarget(refs, ref, replyToId) ==
    IF Truthy(replyToId)
    THEN DeriveThreadRef(refs, ref, replyToId)
    ELSE [refs |-> refs, threadRef |-> ref]

\* Mutant of Invalid: rejected only when both fields are absent.
InvalidWhenBothAbsent(conversationId, message) ==
    ~Truthy(conversationId) /\ ~Truthy(message)

\* The validation of POST /api/notify: whether the request is rejected.
Invalid(conversationId, message) == ~Truthy(conversationId) \/ ~Truthy(message)

\* POST /api/notify up to its await: the responses given, the sends started,
\* and whether the handler now awaits a send.
OnNotify(refs, req) ==
    LET b == Destructure(req)
        ref == MapGet(refs, b.conversationId)
        t == SendTarget(refs, ref, b.replyToId)
    IN  IF Invalid(b.conversationId, b.message)
        THEN [refs |-> refs, awaiting |-> FALSE, sends |-> <<>>,
              res |-> Respond(<<>>, 400,
                        [error |-> Str("conversationId and message are required")])]
        ELSE IF ref = NoObject
        THEN [refs |-> refs, awaiting |-> FALSE, sends |-> <<>>,
              res |-> Respond(<<>>, 404,
                        [error |-> Str("Conversation not found. The bot must receive a message from this conversation first."),
                         knownConversations |-> MapKeys(refs)])]
        ELSE [refs |-> t.refs, awaiting |-> TRUE, res |-> <<>>,
              sends |-> <<[activity |-> BuildActivityParams(b.message, b.mentions),
                           ref |-> t.threadRef]>>]

\* The send resolved: res.json({ status: "sent", activityId: result.id }).
OnSendResolved(res, result) ==
    [res |-> Respond(res, 200, [status |-> Str("sent"), activityId |-> result.id]),
     sends |-> <<>>]

\* Mutant of OnSendRejected: the error's message is dropped for a fixed text.
OnSendRejectedFixedText(res, err) ==
    [res |-> Respond(res, 500, [error |-> Str("Failed to send message")]),
     sends |-> <<>>]

\* The send rejected: the catch answers 500 with the error's message.
OnSendRejected(res, err) ==
    [res |-> Respond(res, 500,
                [error |-> IF Truthy(err.message) THEN err.message
                           ELSE Str("Failed to send message")]),
     sends |-> <<>>]

\* GET /api/conversations: one item per entry of the registry.
OnListConversations(refs) ==
    Respond(<<>>, 200,
        [conversations |->
            [i \in DOMAIN refs |->
                [conversationId |-> refs[i].key,
                 conversationType |-> refs[i].ref.conversation.conversationType,
                 serviceUrl |-> refs[i].ref.serviceUrl]]])

\* ------------------------------------------------------------------ actions
Init ==
    /\ storage = [c \in Conv |-> NoObject]
    /\ conversationReferences = <<>>
    /\ pending = EmptyBag
    /\ last = [op |-> "init"]
    /\ sinceReset = [c \in Conv |-> 0]
    /\ observed = [c \in Conv |-> NoObject]
    /\ justReset = [c \in Conv |-> FALSE]
    /\ touched = [c \in Conv |-> FALSE]
    /\ replied = [c \in Conv |-> {}]
    /\ arrival = <<>>

Install(c, url) ==
    \E activity \in {Activity(c, <<>>, url)} :
    \E r \in {OnInstall(storage, conversationReferences, activity)} :
        /\ storage' = r.storage
        /\ conversationReferences' = r.refs
        /\ pending' =
               IF r.replies = <<>> THEN pending
               ELSE pending (+) SetToBag({[kind |-> "message", conv |-> c]})
        /\ observed' = [observed EXCEPT ![c] = ContextRef(activity)]
        /\ last' = [op |-> "install", conv |-> c, ref |-> ContextRef(activity),
                    replies |-> r.replies, effects |-> r.effects]
        /\ arrival' = IF observed[c] = NoObject THEN Append(arrival, c) ELSE arrival
        /\ UNCHANGED <<sinceReset, justReset, touched, replied>>

Message(c, raw, url) ==
    \E activity \in {Activity(c, raw, url)} :
    \E r \in {OnMessage(storage, conversationReferences, activity)} :
        /\ BagCardinality(pending) < MaxPending
        /\ (r.text \notin Commands => Count(storage, c) < MaxCount)
        /\ storage' = r.storage
        /\ conversationReferences' = r.refs
        /\ pending' = pending (+) SetToBag({[kind |-> "message", conv |-> c]})
        /\ observed' = [observed EXCEPT ![c] = ContextRef(activity)]
        /\ sinceReset' =
               [sinceReset EXCEPT ![c] =
                    IF r.text = Str("/reset") THEN 0
                    ELSE IF r.text \in Commands THEN @ ELSE @ + 1]
        /\ justReset' = [justReset EXCEPT ![c] = (r.text = Str("/reset"))]
        /\ touched' =
               [touched EXCEPT ![c] =
                    IF r.text = Str("/reset") THEN FALSE
                    ELSE IF r.text \in {Str("/diag"), Str("/runtime")} THEN @
                    ELSE TRUE]
        /\ replied' =
               [replied EXCEPT ![c] =
                    IF r.text = Str("/reset") THEN {}
                    ELSE IF r.text \in Commands THEN @ ELSE @ \cup {r.reply[2]}]
        /\ arrival' = IF observed[c] = NoObject THEN Append(arrival, c) ELSE arrival
        /\ last' = [op |-> "message", conv |-> c, text |-> r.text,
                    ref |-> ContextRef(activity), reply |-> r.reply,
                    effects |-> r.effects, afterReset |-> justReset[c]]

\* The awaited reply of a message handler resolves: the handler returns.
ReplyResolved(p) ==
    /\ BagIn(p, pending)
    /\ p.kind = "message"
    /\ pending' = pending (-) SetToBag({p})
    /\ last' = [op |-> "messageDone", req |-> p]
    /\ UNCHANGED <<storage, conversationReferences, sinceReset, observed, justReset,
                 touched, replied, arrival>>

\* The awaited reply rejects: the handler's promise rejects with the error.
ReplyRejected(p) ==
    /\ BagIn(p, pending)
    /\ p.kind = "message"
    /\ pending' = pending (-) SetToBag({p})
    /\ \E r \in {OnReplyRejected(p)} :
           last' = [op |-> "messageRejected", req |-> p, caught |-> r.caught,
                    handler |-> r.handler]
    /\ UNCHANGED <<storage, conversationReferences, sinceReset, observed, justReset,
                 touched, replied, arrival>>

\* POST /api/notify: answered at once, or parked at the awaited send.
Notify(body) ==
    \E r \in {OnNotify(conversationReferences, [body |-> body])} :
        /\ BagCardinality(pending) < MaxPending
        /\ conversationReferences' = r.refs
        /\ pending' =
               IF r.awaiting
               THEN pending (+) SetToBag({[kind |-> "notify", res |-> r.res,
                                           sends |-> Len(r.sends)]})
               ELSE pending
        /\ last' = [op |-> "notify", body |-> body, awaiting |-> r.awaiting,
                    res |-> r.res, sends |-> r.sends]
        /\ UNCHANGED <<storage, sinceReset, observed, justReset, touched, replied,
                       arrival>>

\* The awaited proactive send resolves with the activity sent.
SendResolved(p, result) ==
    /\ BagIn(p, pending)
    /\ p.kind = "notify"
    /\ pending' = pending (-) SetToBag({p})
    /\ \E r \in {OnSendResolved(p.res, result)} :
           last' = [op |-> "sendResolved", req |-> p, result |-> result,
                    res |-> r.res, sends |-> r.sends]
    /\ UNCHANGED <<storage, conversationReferences, sinceReset, observed, justReset,
                 touched, replied, arrival>>

\* The awaited proactive send rejects.
SendRejected(p, err) ==
    /\ BagIn(p, pending)
    /\ p.kind = "notify"
    /\ pending' = pending (-) SetToBag({p})
    /\ \E r \in {OnSendRejected(p.res, err)} :
           last' = [op |-> "sendRejected", req |-> p, err |-> err,
                    res |-> r.res, sends |-> r.sends]
    /\ UNCHANGED <<storage, conversationReferences, sinceReset, observed, justReset,
                 touched, replied, arrival>>

ListConversations ==
    /\ last' = [op |-> "list", res |-> OnListConversations(conversationReferences)]
    /\ UNCHANGED <<storage, conversationReferences, pending, sinceReset, observed,
                   justReset, touched, replied, arrival>>

Next ==
    \/ \E c \in Conv, url \in ServiceUrls : Install(c, url)
    \/ \E c \in Conv, raw \in RawTexts, url \in ServiceUrls : Message(c, raw, url)
    \/ \E p \in BagToSet(pending) : ReplyResolved(p)
    \/ \E p \in BagToSet(pending) : ReplyRejected(p)
    \/ \E body \in Bodies : Notify(body)
    \/ \E p \in BagToSet(pending), result \in SendResults : SendResolved(p, result)
    \/ \E p \in BagToSet(pending), err \in SendErrors : SendRejected(p, err)
    \/ ListConversations

Spec == Init /\ [][Next]_vars


\* ------------------------------------------------------------------ claims
\* The step just taken handled a message of conversation c.
MessageStep(c) == last'.op = "message" /\ last'.conv = c

\* C1: every message of c whose mention-stripped text is none of the five
\* commands leaves c with a state whose count is one more than the count c had
\* just before the handler ran, an absent state counting as 0.
C1_EchoIncrementsByOne ==
    [][\A c \in Conv :
          (MessageStep(c) /\ last'.text \notin Commands)
              => /\ storage'[c] # NoObject
                 /\ storage'[c].count = Count(storage, c) + 1]_vars

\* A text that begins with a command but is not one was echoed as the second
\* echo of its conversation.
C1_Witness ==
    /\ last.op = "message"
    /\ last.text = <<"/count", " now">>
    /\ storage[last.conv] = [count |-> 2]

\* C2 as stated: handling /count leaves the conversation state store exactly
\* as it was before the message.
C2_CountLeavesStoreUntouched ==
    [][\A c \in Conv :
          (MessageStep(c) /\ last'.text = Str("/count")) => storage' = storage]_vars

\* C2 amended: handling /count on c changes no count (an absent state counting
\* as 0), replies with the current count, leaves the records of the other
\* conversations as they were, and changes the store at most by creating the
\* record {count: 0} of c when c had none.
C2_CountChangesNoCount ==
    [][\A c \in Conv :
          (MessageStep(c) /\ last'.text = Str("/count"))
              => /\ \A d \in Conv : Count(storage', d) = Count(storage, d)
                 /\ \A d \in Conv \ {c} : storage'[d] = storage[d]
                 /\ storage'[c] =
                        (IF storage[c] = NoObject THEN [count |-> 0] ELSE storage[c])
                 /\ last'.reply = <<"The count is ", ToString(Count(storage, c))>>]_vars

\* /count was answered with a count of 2 that it left in place.
C2_Witness ==
    /\ last.op = "message"
    /\ last.text = Str("/count")
    /\ last.reply = <<"The count is ", "2">>
    /\ storage[last.conv] = [count |-> 2]

\* C3: a conversation never seen has no state, /reset leaves its conversation
\* without state and answers with the confirmation whether or not there was a
\* state, no step other than a message of c gives c a state, fetch-or-init of
\* a conversation without state yields count 0, and /count on it is answered
\* "The count is 0".
C3_FreshCountIsZero ==
    /\ [](\A c \in Conv :
            /\ observed[c] = NoObject => storage[c] = NoObject
            /\ justReset[c] => storage[c] = NoObject
            /\ storage[c] = NoObject
                   => getConversationState(storage, c).state = [count |-> 0])
    /\ [][\A c \in Conv :
            /\ (MessageStep(c) /\ last'.text = Str("/reset"))
                   => storage'[c] = NoObject /\ last'.reply = ResetReply
            /\ (MessageStep(c) /\ last'.text = Str("/count") /\ storage[c] = NoObject)
                   => /\ last'.reply = <<"The count is ", "0">>
                      /\ storage'[c] = [count |-> 0]
            /\ (~MessageStep(c) /\ storage[c] = NoObject) => storage'[c] = NoObject]_vars

\* /count, arriving right after a /reset that followed echoes of the other
\* conversation too, was answered with 0.
C3_Witness ==
    /\ last.op = "message"
    /\ last.text = Str("/count")
    /\ last.afterReset
    /\ last.reply = <<"The count is ", "0">>
    /\ \E d \in Conv \ {last.conv} : Count(storage, d) = 2

\* C4: the stored count of a conversation is the number of non-command
\* messages handled since its last /reset (no state: none), and the reply to
\* such a message is "[k] you said: <text>" with k that number.
C4_ReplyCarriesNewCount ==
    /\ \A c \in Conv :
          /\ storage[c] # NoObject => storage[c].count = sinceReset[c]
          /\ storage[c] = NoObject => sinceReset[c] = 0
    /\ (last.op = "message" /\ last.text \notin Commands)
          => last.reply =
                 <<"[", ToString(sinceReset[last.conv]), "] you said: ">> \o last.text

\* The second "hello" of a conversation was answered "[2] you said: hello".
C4_Witness ==
    /\ last.op = "message"
    /\ last.reply = <<"[", "2", "] you said: ", "hello">>
    /\ sinceReset[last.conv] = 2

\* C5: the registry holds, for every conversation an inbound event was
\* handled for, the reference of the latest such event; the handler of an
\* inbound event sets it before anything else it does.
C5_RegistryHoldsLatestRef ==
    /\ \A c \in Conv :
          observed[c] # NoObject
              => /\ MapHas(conversationReferences, c)
                 /\ MapGet(conversationReferences, c) = observed[c]
    /\ last.op \in {"install", "message"}
          => /\ MapGet(conversationReferences, last.conv) = last.ref
             /\ last.effects[1] = "refs.set"
             /\ \A i \in 2..Len(last.effects) : last.effects[i] # "refs.set"

\* An event of the conversation entered first, handled after the other
\* conversation had entered too, left its new reference in the first entry.
C5_Witness ==
    /\ last.op \in {"install", "message"}
    /\ Len(conversationReferences) = 2
    /\ conversationReferences[1].key = last.conv
    /\ conversationReferences[1].ref = last.ref
    /\ last.ref.serviceUrl # conversationReferences[2].ref.serviceUrl

\* The fields of the body of the POST /api/notify just handled.
NotifyBody ==
    IF last.body = NoObject
    THEN Body(Undefined, Undefined, Undefined, MUndefined)
    ELSE last.body

\* A required field of a request is absent: not given, or empty.
Absent(v) == v = Undefined \/ v = <<>>

\* The POST /api/notify just handled carried both required fields.
ValidNotify ==
    /\ last.op = "notify"
    /\ ~Absent(NotifyBody.conversationId)
    /\ ~Absent(NotifyBody.message)

\* No inbound event was ever handled for the conversation id k.
NeverObserved(k) == k \notin Conv \/ observed[k] = NoObject

NotFoundText ==
    Str("Conversation not found. The bot must receive a message from this conversation first.")

\* C6: a POST /api/notify with both fields, for a conversation no inbound
\* event was handled for, is answered 404 with knownConversations the keys of
\* the registry, and starts no send.
C6_UnknownConversationIs404 ==
    (ValidNotify /\ NeverObserved(NotifyBody.conversationId))
        => /\ last.res =
                  <<[status |-> 404,
                     json |-> [error |-> NotFoundText,
                               knownConversations |->
                                   MapKeys(conversationReferences)]]>>
           /\ {last.res[1].json.knownConversations[i] :
                   i \in DOMAIN last.res[1].json.knownConversations}
                  = {c \in Conv : observed[c] # NoObject}
           /\ last.sends = <<>>
           /\ ~last.awaiting

\* With both conversations known, a request for a third was answered 404.
C6_Witness ==
    /\ ValidNotify
    /\ NotifyBody.conversationId = Unseen
    /\ Len(conversationReferences) = 2
    /\ last.res[1].status = 404
    /\ Len(last.res[1].json.knownConversations) = 2

\* C7: a POST /api/notify that reaches the send addresses it, with replyToId
\* r, to the cached reference with its conversation id replaced by
\* "c;messageid=r", and without replyToId to the cached reference itself; the
\* registry is the same before and after, and still holds the reference of
\* the latest inbound event.
C7_ThreadRefIsACopy ==
    /\ [](\A c \in Conv :
            (ValidNotify /\ NotifyBody.conversationId = c /\ last.awaiting)
                => LET cached == MapGet(conversationReferences, c)
                       sent == last.sends[1].ref
                       r == NotifyBody.replyToId
                   IN  /\ Len(last.sends) = 1
                       /\ cached = observed[c]
                       /\ cached.conversation.id = c
                       /\ ~Absent(r) =>
                             /\ sent.conversation.id = c \o <<";messageid=">> \o r
                             /\ sent.conversation.conversationType
                                    = cached.conversation.conversationType
                             /\ sent.serviceUrl = cached.serviceUrl
                             /\ DOMAIN sent = DOMAIN cached
                             /\ DOMAIN sent.conversation = DOMAIN cached.conversation
                       /\ Absent(r) => sent = cached)
    /\ [][last'.op = "notify"
             => conversationReferences' = conversationReferences]_vars

\* A threaded send was started while another proactive send was in flight.
C7_Witness ==
    /\ ValidNotify
    /\ last.awaiting
    /\ NotifyBody.replyToId = Str("m2")
    /\ last.sends[1].ref.conversation.id = <<"c2", ";messageid=", "m2">>
    /\ CopiesIn([kind |-> "notify", res |-> <<>>, sends |-> 1], pending) = 2

\* C8: a POST /api/notify without conversationId or without message is
\* answered 400 whatever the registry holds, starts no send, and changes
\* neither store.
C8_MissingFieldIs400 ==
    [][(last'.op = "notify"
            /\ (\/ last'.body = NoObject
                \/ Absent(last'.body.conversationId)
                \/ Absent(last'.body.message)))
          => /\ last'.res =
                    <<[status |-> 400,
                       json |-> [error |->
                           Str("conversationId and message are required")]]>>
             /\ last'.sends = <<>>
             /\ ~last'.awaiting
             /\ pending' = pending
             /\ storage' = storage
             /\ conversationReferences' = conversationReferences]_vars

\* A request for an unknown conversation, without message, was answered 400.
C8_Witness ==
    /\ last.op = "notify"
    /\ last.body = Body(Unseen, Undefined, Undefined, MUndefined)
    /\ last.res[1].status = 400
    /\ conversationReferences # <<>>

\* The parts of C9 that do not depend on the text of the error: a valid
\* request for a known conversation starts exactly one send and answers
\* nothing yet; the send resolving gives the one response 200 with the id of
\* the activity sent; the send rejecting gives the one response 500; neither
\* starts another send.
C9_OneSendOneResponse ==
    /\ (ValidNotify /\ ~NeverObserved(NotifyBody.conversationId))
          => Len(last.sends) = 1 /\ last.res = <<>> /\ last.awaiting
    /\ last.op = "sendResolved"
          => /\ last.req.sends = 1
             /\ last.sends = <<>>
             /\ last.res = <<[status |-> 200,
                              json |-> [status |-> Str("sent"),
                                        activityId |-> last.result.id]]>>
    /\ last.op = "sendRejected"
          => /\ last.req.sends = 1
             /\ last.sends = <<>>
             /\ Len(last.res) = 1
             /\ last.res[1].status = 500

\* C9 as stated: ... and the error of the 500 is the message text of the
\* failure.
C9_ErrorIsFailureText ==
    /\ C9_OneSendOneResponse
    /\ last.op = "sendRejected" => last.res[1].json = [error |-> last.err.message]

\* C9 amended: ... and the error of the 500 is the message text of the
\* failure when it has one, and "Failed to send message" when it has none.
C9_ErrorIsFailureTextOrFixed ==
    /\ C9_OneSendOneResponse
    /\ last.op = "sendRejected"
          => last.res[1].json =
                 [error |-> IF Absent(last.err.message)
                            THEN Str("Failed to send message")
                            ELSE last.err.message]

\* A send failed with a message text, and the 500 carried it.
C9_Witness ==
    /\ last.op = "sendRejected"
    /\ last.err.message = Str("network down")
    /\ last.res = <<[status |-> 500, json |-> [error |-> Str("network down")]]>>

\* C10: the registry has an entry for exactly the conversations an inbound
\* event was handled for, no step removes or moves a key, and a valid POST
\* /api/notify for a conversation with an inbound event handled is not
\* answered 404: it reaches the send.
C10_RegistryOnlyGrows ==
    /\ [](/\ \A c \in Conv :
               MapHas(conversationReferences, c) <=> observed[c] # NoObject
          /\ \A i \in DOMAIN conversationReferences :
               conversationReferences[i].key \in Conv
          /\ (ValidNotify /\ ~NeverObserved(NotifyBody.conversationId))
               => last.res = <<>> /\ last.awaiting)
    /\ [][/\ Len(conversationReferences') >= Len(conversationReferences)
          /\ \A i \in DOMAIN conversationReferences :
               conversationReferences'[i].key = conversationReferences[i].key]_vars

\* A request reached the send for a conversation whose latest message was
\* /reset, while an earlier proactive send was still in flight.
C10_Witness ==
    /\ ValidNotify
    /\ last.awaiting
    /\ NotifyBody.conversationId \in Conv
    /\ justReset[NotifyBody.conversationId]
    /\ storage[NotifyBody.conversationId] = NoObject
    /\ CopiesIn([kind |-> "notify", res |-> <<>>, sends |-> 1], pending) = 2

\* C11: a conversation has a state record exactly when /count, /state or a
\* non-command message was handled for it since its last /reset; a record
\* holds a count that is a natural number; and a step that is no such message
\* of c (a /reset, /diag or /runtime, an install, a message of another
\* conversation, an HTTP request, a send settling) never gives c a record.
C11_StateExistsIffTouched ==
    /\ [](\A c \in Conv :
            /\ storage[c] # NoObject <=> touched[c]
            /\ storage[c] # NoObject
                   => DOMAIN storage[c] = {"count"} /\ storage[c].count \in Nat)
    /\ [][\A c \in Conv :
            (/\ storage[c] = NoObject
             /\ ~(/\ MessageStep(c)
                  /\ last'.text \notin {Str("/reset"), Str("/diag"), Str("/runtime")}))
                => storage'[c] = NoObject]_vars

\* /state, right after a /reset, created the record {count: 0} anew while the
\* other conversation, last reset too, has none.
C11_Witness ==
    /\ last.op = "message"
    /\ last.text = Str("/state")
    /\ last.afterReset
    /\ storage[last.conv] = [count |-> 0]
    /\ \E d \in Conv \ {last.conv} : justReset[d] /\ storage[d] = NoObject

\* C12: an install event of c sets the registry entry of c to its reference
\* and does nothing else: the entries of the other conversations, the state
\* store and the handlers in flight are as before, and no reply is sent.
C12_InstallOnlyUpserts ==
    [][\A c \in Conv :
          (last'.op = "install" /\ last'.conv = c)
              => /\ MapGet(conversationReferences', c) = last'.ref
                 /\ \A d \in Conv \ {c} :
                        MapGet(conversationReferences', d)
                            = MapGet(conversationReferences, d)
                 /\ storage' = storage
                 /\ pending' = pending
                 /\ last'.replies = <<>>
                 /\ last'.effects = <<"refs.set">>]_vars

\* An install event arrived for a conversation with count 2 and a reply in
\* flight, and changed its service url only.
C12_Witness ==
    /\ last.op = "install"
    /\ storage[last.conv] = [count |-> 2]
    /\ BagIn([kind |-> "message", conv |-> last.conv], pending)
    /\ Len(conversationReferences) = 2
    /\ last.ref.serviceUrl = Str("https://s2")

\* C13: handling /diag or /runtime reads and writes no conversation state:
\* the state store is the same before and after, and the handler does nothing
\* but set the reference and send one reply, which it then awaits.
C13_DiagRuntimeTouchNoState ==
    [][\A c \in Conv :
          (MessageStep(c) /\ last'.text \in {Str("/diag"), Str("/runtime")})
              => /\ storage' = storage
                 /\ last'.effects = <<"refs.set", "send">>
                 /\ pending' = pending (+) SetToBag({[kind |-> "message", conv |-> c]})
                 /\ last'.text = Str("/runtime") => last'.reply = RuntimeReply]_vars

\* /diag was answered for a conversation that has no state and was never
\* touched, and left it without one.
C13_Witness ==
    /\ last.op = "message"
    /\ last.text = Str("/diag")
    /\ storage[last.conv] = NoObject
    /\ ~touched[last.conv]
    /\ ~last.afterReset
    /\ last.reply[Len(last.reply) - 1] = "/diag"

\* The handlers of messages of c suspended at their reply.
InFlight(c) == CopiesIn([kind |-> "message", conv |-> c], pending)

\* C14: with any number of handlers of c suspended at their replies, the
\* count of c is the number n of non-command messages handled since the last
\* /reset, the replies to them carried exactly the counts 1..n, and each
\* further one finds the state where the last left it: its reply carries a
\* count no earlier reply carried, one more than the count before.
C14_NoLostIncrementInFlight ==
    /\ [](\A c \in Conv :
            /\ Count(storage, c) = sinceReset[c]
            /\ replied[c] = {ToString(k) : k \in 1..sinceReset[c]})
    /\ [][\A c \in Conv :
            (MessageStep(c) /\ last'.text \notin Commands /\ InFlight(c) > 0)
                => /\ last'.reply[2] \notin replied[c]
                   /\ last'.reply[2] = ToString(Count(storage, c) + 1)
                   /\ storage'[c] = [count |-> Count(storage, c) + 1]]_vars

\* With a handler of the conversation still suspended, a second echo was
\* answered [2] after [1], and both handlers are now in flight.
C14_Witness ==
    /\ last.op = "message"
    /\ last.text \notin Commands
    /\ last.reply[2] = "2"
    /\ replied[last.conv] = {"1", "2"}
    /\ InFlight(last.conv) = 2
    /\ ~last.afterReset

\* C15: when the reply of a message handler fails, the failure is caught
\* within the handler and does not leave it, and the stores stay consistent
\* for the events that follow: the counts are those of the echoes handled and
\* the registry holds the latest references.
C15_ReplyFailureIsCaught ==
    /\ last.op = "messageRejected"
          => last.caught /\ last.handler # "rejected"
    /\ \A c \in Conv :
          /\ Count(storage, c) = sinceReset[c]
          /\ MapGet(conversationReferences, c) = observed[c]

\* C16: GET /api/conversations answers 200 with one item per conversation an
\* inbound event was handled for, in the order of their first events, each
\* item holding the conversation id with the conversation type and the service
\* url of the reference of its latest event; the items are those of the
\* registry entries, in their order.
C16_ListFollowsRegistryOrder ==
    last.op = "list"
        => /\ Len(last.res) = 1
           /\ last.res[1].status = 200
           /\ DOMAIN last.res[1].json = {"conversations"}
           /\ last.res[1].json.conversations =
                  [i \in DOMAIN arrival |->
                      [conversationId |-> arrival[i],
                       conversationType |->
                           observed[arrival[i]].conversation.conversationType,
                       serviceUrl |-> observed[arrival[i]].serviceUrl]]
           /\ MapKeys(conversationReferences) = arrival
           /\ \A i, j \in DOMAIN arrival : arrival[i] = arrival[j] => i = j

\* Two conversations were listed, the one that arrived first (and has been
\* upserted at least twice: two of its handlers are in flight) first and once,
\* though its id sorts last.
C16_Witness ==
    /\ last.op = "list"
    /\ Len(last.res[1].json.conversations) = 2
    /\ last.res[1].json.conversations[1].conversationId = Str("c2")
    /\ last.res[1].json.conversations[1].conversationType = Undefined
    /\ last.res[1].json.conversations[2].conversationType = Str("personal")
    /\ InFlight(Str("c2")) = 2

\* C17: the payload of a POST /api/notify that reaches the send is the message
\* as text; when mentions is a non-empty array it carries one mention entity
\* per item, in order, with text "<at>NAME</at>" and the item's id and name
\* as the mentioned identity; when mentions is absent, not an array or empty
\* it carries no entities.
C17_OneEntityPerMention ==
    (ValidNotify /\ last.awaiting)
        => LET ms == NotifyBody.mentions
               payload == last.sends[1].activity
           IN  /\ payload.type = Str("message")
               /\ payload.text = NotifyBody.message
               /\ IF ms.tag = "array" /\ ms.items # <<>>
                  THEN /\ DOMAIN payload = {"type", "text", "entities"}
                       /\ Len(payload.entities) = Len(ms.items)
                       /\ \A i \in DOMAIN ms.items :
                              payload.entities[i] =
                                  [type |-> Str("mention"),
                                   text |-> <<"<at>">> \o ms.items[i].name \o <<"</at>">>,
                                   mentioned |-> [id |-> ms.items[i].id,
                                                  name |-> ms.items[i].name]]
                  ELSE DOMAIN payload = {"type", "text"}

\* A send was started with the entities of Bob and Al, in that order.
C17_Witness ==
    /\ ValidNotify
    /\ last.awaiting
    /\ NotifyBody.mentions = MArray(<<Bob, Al>>)
    /\ Len(last.sends[1].activity.entities) = 2
    /\ last.sends[1].activity.entities[2].text = <<"<at>", "Al", "</at>">>
    /\ last.sends[1].activity.entities[2].mentioned.id = Str("u2")

\* C18: an inbound event of c, install or message, /reset included, leaves
\* the state record and the registry entry of every other conversation, and
\* the place of that entry, as they were.
C18_EventsTouchOneConversation ==
    [][\A c \in Conv :
          (last'.op \in {"install", "message"} /\ last'.conv = c)
              => \A d \in Conv \ {c} :
                    /\ storage'[d] = storage[d]
                    /\ MapGet(conversationReferences', d)
                           = MapGet(conversationReferences, d)
                    /\ \A i \in DOMAIN conversationReferences :
                           conversationReferences[i].key = d
                               => conversationReferences'[i]
                                      = conversationReferences[i]]_vars

\* /reset of one conversation removed its record of count 2 and left the
\* record of count 2 and the reference of the other.
C18_Witness ==
    /\ last.op = "message"
    /\ last.text = Str("/reset")
    /\ storage[last.conv] = NoObject
    /\ replied[last.conv] = {}
    /\ \E d \in Conv \ {last.conv} :
          /\ storage[d] = [count |-> 2]
          /\ MapGet(conversationReferences, d).serviceUrl # last.ref.serviceUrl

\* The steps of the HTTP routes: a request arriving, or the send of a
\* request settling.
HttpStep == last'.op \in {"notify", "sendResolved", "sendRejected", "list"}

\* C19: no step of POST /api/notify or GET /api/conversations changes the
\* registry or the state store; a request is answered once, with 200, 400,
\* 404 or 500: at once and not again, or not before its send settles and then
\* once.
C19_HttpReadsOnly ==
    [][HttpStep
          => /\ conversationReferences' = conversationReferences
             /\ storage' = storage
             /\ \A i \in DOMAIN last'.res :
                    last'.res[i].status \in {200, 400, 404, 500}
             /\ IF last'.op = "notify" /\ last'.awaiting
                THEN /\ last'.res = <<>>
                     /\ pending' = pending (+) SetToBag({[kind |-> "notify",
                                        res |-> <<>>, sends |-> 1]})
                ELSE /\ Len(last'.res) = 1
                     /\ last'.op = "notify" => pending' = pending
                     /\ last'.op = "list" => pending' = pending
                     /\ last'.op \in {"sendResolved", "sendRejected"}
                            => /\ last'.req.res = <<>>
                               /\ pending' = pending (-) SetToBag({last'.req})]_vars

\* A send failed and was answered 500, with both stores holding entries and
\* another request still awaiting its send.
C19_Witness ==
    /\ last.op = "sendRejected"
    /\ last.res[1].status = 500
    /\ Len(conversationReferences) = 2
    /\ \E c \in Conv : storage[c] = [count |-> 2]
    /\ BagIn([kind |-> "notify", res |-> <<>>, sends |-> 1], pending)

====
